---- MODULE Spec2Model ----
(***************************************************************************)
(* Hourly capture of one feature row per city, as done by                  *)
(* generar_datos_CDMX_24h.py (fixed location) and generar_datos_LA_24h.py  *)
(* (nearest-location search): sensor resolution, weather fetch, current    *)
(* pollutant readings, pm25 lag readings, row assembly and the             *)
(* read-concatenate-rewrite of the per-city CSV table.                     *)
(*                                                                         *)
(* Time is counted in minutes since Monday 2024-01-01 00:00 UTC.           *)
(***************************************************************************)
EXTENDS Integers, Sequences, FiniteSets, TLC

\* ------------------------------------------------------------------ bounds
\* Capture runs started in one behaviour (each emitting run adds a row).
MaxRuns == 2
\* Sensor descriptors one location resolution returns.
MaxSensors == 2
\* Readings in one measurement stream of the capture runs.
MaxStream == 1
\* Readings in the stream the lag resolvers are applied to on their own.
MaxLagReadings == 2
\* Hours the wall clock advances in one behaviour.
MaxTicks == 1
\* Readings in a stream, and measurements in a latest list, that the
\* current-reading functions are applied to on their own.
MaxCurrent == 2

\* --------------------------------------------------------------- constants
HOUR == 60
DAY == 1440
\* timedelta(hours=6): the CDMX script's fixed UTC-6 shift.
CDMX_SHIFT == 360
\* timedelta(hours=8): the LA script's fixed UTC-8 shift.
LA_SHIFT == 480
\* timedelta(minutes=30): half-width of the LA lag window and its tolerance.
HALF_WINDOW == 30
\* timedelta(hours=1): the start value of menor_diferencia.
INITIAL_DIFF == 60

lag_hours == <<3, 6, 12, 24>>

lag_columns == <<"pm25_lag_3h", "pm25_lag_6h", "pm25_lag_12h", "pm25_lag_24h">>

CSV_COLUMNS ==
  << "timestamp", "temperature_2m", "relativehumidity_2m", "precipitation",
     "pressure_msl", "windspeed_10m", "winddirection_10m",
     "boundary_layer_height", "shortwave_radiation_sum",
     "hour_of_day", "day_of_week", "month_of_year", "is_weekend",
     "co", "no", "no2", "nox", "o3", "pm25", "so2",
     "pm25_lag_3h", "pm25_lag_6h", "pm25_lag_12h", "pm25_lag_24h" >>

Range(s) == {s[i] : i \in DOMAIN s}

Schema == Range(CSV_COLUMNS)

\* The "hourly" variables both scripts ask Open-Meteo for.
HourlyVars ==
  { "temperature_2m", "relativehumidity_2m", "precipitation", "pressure_msl",
    "windspeed_10m", "winddirection_10m", "boundary_layer_height" }

\* Raw sensor labels and the canonical pollutant each maps to.  The label
\* 'pm25 µg/m³' of the source is written "pm25 ug/m3" here.
PARAMETER_MAPPING ==
  [ n \in {"co ppm", "no ppm", "no2 ppm", "nox ppm", "o3 ppm", "pm25 ug/m3", "so2 ppm"} |->
      CASE n = "co ppm" -> "co"
        [] n = "no ppm" -> "no"
        [] n = "no2 ppm" -> "no2"
        [] n = "nox ppm" -> "nox"
        [] n = "o3 ppm" -> "o3"
        [] n = "pm25 ug/m3" -> "pm25"
        [] n = "so2 ppm" -> "so2" ]

Pollutants == Range([n \in DOMAIN PARAMETER_MAPPING |-> PARAMETER_MAPPING[n]])

\* ------------------------------------------------------------------- cells
\* A value held in a row, in memory: NaN (a field never set), None (a field
\* set to "not available"), an integer n, the float n.0, a boolean (v = 1
\* for True), a timezone-aware datetime (v = its wall-clock minutes).  On
\* disk a cell is text: empty, or the text of one of these ("str" is the
\* text of a datetime).  IntCell(1) and FloatCell(1) are the texts 1 and 1.0.
NaN == [k |-> "nan", v |-> 0]
None == [k |-> "none", v |-> 0]
Empty == [k |-> "empty", v |-> 0]
IntCell(n) == [k |-> "int", v |-> n]
FloatCell(n) == [k |-> "float", v |-> n]
BoolCell(b) == [k |-> "bool", v |-> IF b THEN 1 ELSE 0]
Datetime(t) == [k |-> "datetime", v |-> t]
Str(t) == [k |-> "str", v |-> t]

IsNull(c) == c.k \in {"nan", "none", "empty"}

\* ------------------------------------------------------------- data frames
\* A DataFrame: one dtype per column and the rows, each a function from the
\* column names to cells.
Columns(rows) == UNION {DOMAIN rows[i] : i \in DOMAIN rows}

CellAt(row, c) == IF c \in DOMAIN row THEN row[c] ELSE NaN

ColumnKinds(rows, c) == {CellAt(rows[i], c).k : i \in DOMAIN rows}

\* The dtype pandas gives a column built from Python objects.
InferObjects(kinds) ==
  IF kinds = {"int"} THEN "int64"
  ELSE IF kinds \subseteq {"int", "float", "nan"} THEN "float64"
  ELSE IF kinds = {"bool"} THEN "bool"
  ELSE IF kinds = {"datetime"} THEN "datetime64"
  ELSE "object"

\* The dtype read_csv gives a column of text cells: integers only when every
\* cell is an integer, floats when the numbers are mixed with floats or with
\* empty cells, booleans only when every cell is one, text otherwise.
InferText(kinds) ==
  IF kinds = {"int"} THEN "int64"
  ELSE IF kinds \subseteq {"int", "float", "empty"} THEN "float64"
  ELSE IF kinds = {"bool"} THEN "bool"
  ELSE "object"

\* A cell as it is held in a column of the given dtype.
Cast(c, dtype) ==
  IF c.k = "empty" THEN NaN
  ELSE IF dtype = "float64" /\ c.k = "int" THEN FloatCell(c.v)
  ELSE IF dtype = "float64" /\ c.k = "none" THEN NaN
  ELSE c

Frame(rows, dtype) ==
  [ dtype |-> dtype,
    rows |-> [i \in DOMAIN rows |->
               [c \in DOMAIN dtype |-> Cast(CellAt(rows[i], c), dtype[c])]] ]

\* pd.DataFrame(all_rows)
DataFrame(all_rows) ==
  Frame(all_rows, [c \in Columns(all_rows) |-> InferObjects(ColumnKinds(all_rows, c))])

\* pd.read_csv(filename) of a table of text rows
read_csv(text) ==
  Frame(text, [c \in Columns(text) |-> InferText(ColumnKinds(text, c))])

CommonDtype(a, b) ==
  IF a = b THEN a
  ELSE IF {a, b} = {"int64", "float64"} THEN "float64"
  ELSE "object"

DtypeOf(df, c) == IF c \in DOMAIN df.dtype THEN df.dtype[c] ELSE "float64"

\* A concatenation that leaves out the new rows whose timestamp the existing
\* table already has.
concat_unique(df_existing, df_new) ==
  LET seen == {CellAt(df_existing.rows[i], "timestamp").v : i \in DOMAIN df_existing.rows}
      fresh == SelectSeq(df_new.rows, LAMBDA r : CellAt(r, "timestamp").v \notin seen)
  IN  Frame(df_existing.rows \o fresh,
            [c \in DOMAIN df_existing.dtype \cup DOMAIN df_new.dtype |->
               CommonDtype(DtypeOf(df_existing, c), DtypeOf(df_new, c))])

\* pd.concat([df_existing, df_new], ignore_index=True)
concat(df_existing, df_new) ==
  Frame(df_existing.rows \o df_new.rows,
        [c \in DOMAIN df_existing.dtype \cup DOMAIN df_new.dtype |->
           CommonDtype(DtypeOf(df_existing, c), DtypeOf(df_new, c))])

TextOf(c) ==
  IF IsNull(c) THEN Empty
  ELSE IF c.k = "datetime" THEN Str(c.v)
  ELSE c

\* df_final.to_csv(filename, index=False): the text rows written
to_csv(df) ==
  [i \in DOMAIN df.rows |-> [c \in DOMAIN df.rows[i] |-> TextOf(df.rows[i][c])]]

\* -------------------------------------------------------------------- time
\* datetime.hour, datetime.date() (as a day number), datetime.weekday()
\* (Monday = 0) and datetime.month of a time in minutes.  The days that occur
\* lie between December 2023 and February 2024.
HourOf(t) == (t \div HOUR) % 24

DateOf(t) == t \div DAY

weekday(t) == DateOf(t) % 7

month(t) == IF DateOf(t) < 0 THEN 12 ELSE IF DateOf(t) < 31 THEN 1 ELSE 2

Abs(x) == IF x < 0 THEN 0 - x ELSE x

\* datetime.combine(today, datetime.min.time().replace(hour=hour))
combine(today, hour) == today * DAY + hour * HOUR

\* ------------------------------------------------------------ collaborators
\* A reading of a measurement stream: the instant t its period ends, whether
\* its period.datetimeTo.local text parses to that instant, and its value (a
\* number cell, None, or Missing when the record has no 'value' key).
Missing == [k |-> "missing", v |-> 0]

\* The measurement service: the readings of a sensor's stream that lie in the
\* closed interval asked for, in the stream's order.
Window(stream, datetime_from, datetime_to) ==
  SelectSeq(stream, LAMBDA r : datetime_from <= r.t /\ r.t <= datetime_to)

\* ------------------------------------------------------------ CDMX: sensors
\* sensor_mapping[sensor_name] = sensor_id on an insertion-ordered dict, held
\* as the sequence of its items.
DictSet(d, name, id) ==
  IF \E i \in DOMAIN d : d[i].name = name
  THEN [i \in DOMAIN d |-> IF d[i].name = name THEN [name |-> name, id |-> id] ELSE d[i]]
  ELSE Append(d, [name |-> name, id |-> id])

RECURSIVE SensorDict(_, _)
SensorDict(sensors_list, d) ==
  IF sensors_list = <<>> THEN d
  ELSE SensorDict(Tail(sensors_list),
                  DictSet(d, Head(sensors_list).name, Head(sensors_list).id))

\* obtener_sensores_cdmx: {} on an exception, [] on an empty result, the
\* name -> id mapping otherwise.  ok is whether the request succeeded.
obtener_sensores_cdmx(ok, sensors_list) ==
  IF ~ok THEN <<>>
  ELSE IF sensors_list = <<>> THEN <<>>
  ELSE SensorDict(sensors_list, <<>>)

\* obtener_mediciones_cdmx_rango: the results of the request, [] when it
\* fails.
obtener_mediciones_cdmx_rango(ok, stream, datetime_from, datetime_to) ==
  IF ok THEN Window(stream, datetime_from, datetime_to) ELSE <<>>

\* 'pm25' in sensor_name.lower(), over the sensor labels that occur.
HasPm25(name) == name \in {"pm25 ug/m3", "PM25 raw"}

SensorNames == {"co ppm", "pm25 ug/m3"}

\* The loop looking for the pm25 sensor, left at the first one found: its
\* index in the sequence of sensors, 0 if there is none.
Pm25Index(sensors) ==
  IF \E i \in DOMAIN sensors : HasPm25(sensors[i].name)
  THEN CHOOSE i \in DOMAIN sensors :
         /\ HasPm25(sensors[i].name)
         /\ \A j \in 1..(i - 1) : ~HasPm25(sensors[j].name)
  ELSE 0

\* mediciones[0]['value'] if mediciones else None
FirstValue(mediciones) == IF mediciones = <<>> THEN None ELSE mediciones[1].value

\* obtener_datos_openaq_cdmx_hora.  streams gives each sensor id its stream,
\* down the sensor ids whose request fails.  raised: a first reading without
\* a 'value' key raises KeyError out of the function.
MedicionesHora(sensor, target_hour, streams, down) ==
  obtener_mediciones_cdmx_rango(sensor.id \notin down, streams[sensor.id],
                                target_hour, target_hour + HOUR)

\* The function without the try/except around each sensor's request: a
\* failing request raises out of it.
obtener_datos_openaq_cdmx_hora_uncaught(sensor_mapping, target_hour, streams, down) ==
  LET mapped == SelectSeq(sensor_mapping, LAMBDA s : s.name \in DOMAIN PARAMETER_MAPPING)
      value(s) == FirstValue(MedicionesHora(s, target_hour, streams, down))
  IN  [ raised |-> \/ \E i \in DOMAIN mapped : value(mapped[i]) = Missing
                   \/ \E i \in DOMAIN mapped : mapped[i].id \in down,
        data |-> [param \in {PARAMETER_MAPPING[mapped[i].name] : i \in DOMAIN mapped} |->
                    value(mapped[CHOOSE i \in DOMAIN mapped :
                                   PARAMETER_MAPPING[mapped[i].name] = param])] ]

obtener_datos_openaq_cdmx_hora(sensor_mapping, target_hour, streams, down) ==
  LET mapped == SelectSeq(sensor_mapping, LAMBDA s : s.name \in DOMAIN PARAMETER_MAPPING)
      value(s) == FirstValue(MedicionesHora(s, target_hour, streams, down))
  IN  [ raised |-> \E i \in DOMAIN mapped : value(mapped[i]) = Missing,
        data |-> [param \in {PARAMETER_MAPPING[mapped[i].name] : i \in DOMAIN mapped} |->
                    value(mapped[CHOOSE i \in DOMAIN mapped :
                                   PARAMETER_MAPPING[mapped[i].name] = param])] ]

\* ---------------------------------------------------------------- CDMX: lags
\* The dict of the four lag columns, given the value of each offset in the
\* order of lag_hours.
LagRow(values) == [c \in Range(lag_columns) |->
                     values[CHOOSE i \in DOMAIN lag_columns : lag_columns[i] = c]]

\* Every lag column None.
NoLags == LagRow([i \in DOMAIN lag_hours |-> None])

\* obtener_pm25_lag_cdmx.  stream is the stream of the pm25 sensor chosen,
\* down the lag offsets whose request fails.
LagMedicionesCdmx(target_hour, hours_back, stream, down) ==
  obtener_mediciones_cdmx_rango(hours_back \notin down, stream,
                                target_hour - hours_back * HOUR,
                                target_hour - hours_back * HOUR + HOUR)

obtener_pm25_lag_cdmx(sensor_mapping, target_hour, stream, down) ==
  LET pm25 == Pm25Index(sensor_mapping)
      value(i) == FirstValue(LagMedicionesCdmx(target_hour, lag_hours[i], stream, down))
  IN  IF pm25 = 0 \/ sensor_mapping[pm25].id = 0
      THEN [raised |-> FALSE, data |-> NoLags]
      ELSE [raised |-> \E i \in DOMAIN lag_hours : value(i) = Missing,
            data |-> LagRow([i \in DOMAIN lag_hours |-> value(i)])]

\* ------------------------------------------------------------------ LA: lags
\* obtener_sensores_ubicacion_la: the sensor descriptors of the location, []
\* when the request fails or has no results.
obtener_sensores_ubicacion_la(ok, sensors_list) == IF ok THEN sensors_list ELSE <<>>

\* obtener_mediciones_sensor_historicas_la: the results, [] on any failure.
obtener_mediciones_sensor_historicas_la(ok, stream, datetime_from, datetime_to) ==
  IF ok THEN Window(stream, datetime_from, datetime_to) ELSE <<>>

\* The loop over mediciones of obtener_pm25_historico_la: the index of
\* mejor_medicion (0 for None) and menor_diferencia after the readings from
\* index i on.  A reading whose time text does not parse is skipped.
\* The loop with "<=" for "<": of two readings equally near, the later wins.
RECURSIVE MejorMedicionLastTie(_, _, _, _, _)
MejorMedicionLastTie(mediciones, i, target_time, mejor, menor) ==
  IF i > Len(mediciones) THEN [mejor |-> mejor, menor |-> menor]
  ELSE IF mediciones[i].parses /\ Abs(mediciones[i].t - target_time) <= menor
       THEN MejorMedicionLastTie(mediciones, i + 1, target_time, i,
                                 Abs(mediciones[i].t - target_time))
       ELSE MejorMedicionLastTie(mediciones, i + 1, target_time, mejor, menor)

RECURSIVE MejorMedicion(_, _, _, _, _)
MejorMedicion(mediciones, i, target_time, mejor, menor) ==
  IF i > Len(mediciones) THEN [mejor |-> mejor, menor |-> menor]
  ELSE IF mediciones[i].parses /\ Abs(mediciones[i].t - target_time) < menor
       THEN MejorMedicion(mediciones, i + 1, target_time, i,
                          Abs(mediciones[i].t - target_time))
       ELSE MejorMedicion(mediciones, i + 1, target_time, mejor, menor)

\* mejor_medicion.get('value')
GetValue(medicion) == IF medicion.value = Missing THEN None ELSE medicion.value

\* The value one lag offset gets from the readings returned for it.
NearestValue(mediciones, target_time) ==
  LET best == MejorMedicion(mediciones, 1, target_time, 0, INITIAL_DIFF)
  IN  IF mediciones # <<>> /\ best.mejor # 0 /\ best.menor <= HALF_WINDOW
      THEN GetValue(mediciones[best.mejor])
      ELSE None

LagMedicionesLa(target_timestamp, hours_back, stream, down) ==
  obtener_mediciones_sensor_historicas_la(
      hours_back \notin down, stream,
      target_timestamp - hours_back * HOUR - HALF_WINDOW,
      target_timestamp - hours_back * HOUR + HALF_WINDOW)

\* obtener_pm25_historico_la.  sensores is what obtener_sensores_ubicacion_la
\* returned, stream the stream of the pm25 sensor chosen, down the lag
\* offsets whose request fails.
obtener_pm25_historico_la(sensores, target_timestamp, stream, down) ==
  LET pm25 == Pm25Index(sensores)
      value(i) == NearestValue(LagMedicionesLa(target_timestamp, lag_hours[i], stream, down),
                               target_timestamp - lag_hours[i] * HOUR)
  IN  IF sensores = <<>> \/ pm25 = 0
      THEN NoLags
      ELSE LagRow([i \in DOMAIN lag_hours |-> value(i)])

\* ---------------------------------------------------- LA: location and latest
\* sum(1 for param in sensor_params if param in PARAMETER_MAPPING)
RECURSIVE target_params_count(_)
target_params_count(sensors) ==
  IF sensors = <<>> THEN 0
  ELSE (IF Head(sensors).name \in DOMAIN PARAMETER_MAPPING THEN 1 ELSE 0)
       + target_params_count(Tail(sensors))

\* The loop choosing best_location: its index after the locations from i on
\* (0 for None).
\* The loop with ">=" for ">": a location without any known sensor is taken.
RECURSIVE BestLocationAny(_, _, _, _)
BestLocationAny(locations, i, best, max_params) ==
  IF i > Len(locations) THEN best
  ELSE IF target_params_count(locations[i].sensors) >= max_params
       THEN BestLocationAny(locations, i + 1, i, target_params_count(locations[i].sensors))
       ELSE BestLocationAny(locations, i + 1, best, max_params)

RECURSIVE BestLocation(_, _, _, _)
BestLocation(locations, i, best, max_params) ==
  IF i > Len(locations) THEN best
  ELSE IF target_params_count(locations[i].sensors) > max_params
       THEN BestLocation(locations, i + 1, i, target_params_count(locations[i].sensors))
       ELSE BestLocation(locations, i + 1, best, max_params)

\* The loop over the latest measurements: air_quality_data after the
\* measurements from i on; sensors is best_location's sensor list.
RECURSIVE LatestLoop(_, _, _, _)
LatestLoop(latest, i, sensors, data) ==
  IF i > Len(latest) THEN data
  ELSE LET known == {j \in DOMAIN sensors : sensors[j].id = latest[i].sensorsId}
           \* sensor_mapping[sensor_id]: the last descriptor with that id
           name == sensors[CHOOSE j \in known : \A j2 \in known : j2 <= j].name
       IN  IF known # {} /\ name \in DOMAIN PARAMETER_MAPPING
           THEN LatestLoop(latest, i + 1, sensors,
                  [param \in DOMAIN data \cup {PARAMETER_MAPPING[name]} |->
                     IF param = PARAMETER_MAPPING[name] THEN GetValue(latest[i])
                     ELSE data[param]])
           ELSE LatestLoop(latest, i + 1, sensors, data)

\* get_openaq_data_la: (air_quality_data, location_id), location_id 0 for
\* None.  search_ok and latest_ok are whether the two requests succeed; an
\* exception in either leaves what was set before it.
get_openaq_data_la(search_ok, locations, latest_ok, latest) ==
  LET best == IF search_ok THEN BestLocation(locations, 1, 0, 0) ELSE 0
  IN  IF best = 0
      THEN [air_quality_data |-> <<>>, location_id |-> 0]
      ELSE [air_quality_data |->
              IF latest_ok THEN LatestLoop(latest, 1, locations[best].sensors, <<>>)
              ELSE <<>>,
            location_id |-> locations[best].id]

\* ------------------------------------------------------------------- weather
\* The hourly series of an Open-Meteo payload as pd.DataFrame reads it: one
\* record per hour 0 .. n_hours - 1 of the day asked for, holding 'time' and
\* the hourly variables the payload has; every variable of hour h holds h.0.
HourlyFrame(today, n_hours, fields) ==
  [i \in 1..n_hours |->
     [f \in fields \cup {"time"} |->
        IF f = "time" THEN Datetime(combine(today, i - 1)) ELSE FloatCell(i - 1)]]

\* df_hourly[df_hourly['time'].dt.hour == hour]
MatchingWeather(df_hourly, hour) ==
  SelectSeq(df_hourly, LAMBDA rec : HourOf(rec["time"].v) = hour)

\* -------------------------------------------------------------- row assembly
\* pd.Series(index=CSV_COLUMNS, dtype='object')
EmptyRow == [c \in Schema |-> NaN]

\* for col in src: if col in new_row.index: new_row[col] = src[col]
CopyKnown(new_row, src) ==
  [c \in DOMAIN new_row |-> IF c \in DOMAIN src THEN src[c] ELSE new_row[c]]

\* for col in src: new_row[col] = src[col]
CopyAll(new_row, src) ==
  [c \in DOMAIN new_row \cup DOMAIN src |-> IF c \in DOMAIN src THEN src[c] ELSE new_row[c]]

\* The weather copied without the test "if col in new_row.index".
WeatherRowAnyColumn(target_local, current_weather_row, radiation_sum) ==
  [CopyAll([EmptyRow EXCEPT !["timestamp"] = Datetime(target_local)], current_weather_row)
     EXCEPT !["shortwave_radiation_sum"] = radiation_sum]

\* The new row with its timestamp, the weather record and the daily sum.
WeatherRow(target_local, current_weather_row, radiation_sum) ==
  [CopyKnown([EmptyRow EXCEPT !["timestamp"] = Datetime(target_local)], current_weather_row)
     EXCEPT !["shortwave_radiation_sum"] = radiation_sum]

\* for param, value in air_quality_data.items(): if param in new_row.index ...
AddPollutants(new_row, air_quality_data) == CopyKnown(new_row, air_quality_data)

\* for lag_col, lag_value in lag_data.items(): new_row[lag_col] = lag_value
AddLags(new_row, lag_data) == CopyAll(new_row, lag_data)

\* The four calendar fields.
AddCalendar(new_row, hour, target_local) ==
  [new_row EXCEPT !["hour_of_day"] = IntCell(hour),
                  !["day_of_week"] = IntCell(weekday(target_local)),
                  !["month_of_year"] = IntCell(month(target_local)),
                  !["is_weekend"] = BoolCell(weekday(target_local) >= 5)]

\* An except clause that keeps what was assembled of the row.
except_handler_keeps_row(all_rows, new_row) == Append(all_rows, new_row)

\* The except clause around the assembly: it only prints, so all_rows is
\* left as it was and the row under construction is dropped.
except_handler(all_rows, new_row) == all_rows

\* ---------------------------------------------------------------- persistence
\* The existing table read without the try/except around it, its rows taken
\* as they are.
df_final_of_unguarded(f, all_rows) ==
  IF f.exists
  THEN concat(read_csv(f.rows), DataFrame(all_rows))
  ELSE DataFrame(all_rows)

\* The table df_final: the new rows alone when the file is absent or cannot
\* be read, the existing rows followed by the new ones otherwise.
df_final_of(f, all_rows) ==
  IF f.exists /\ f.readable
  THEN concat(read_csv(f.rows), DataFrame(all_rows))
  ELSE DataFrame(all_rows)

\* --------------------------------------------------------------------- state
VARIABLES
  variant,  \* the script the processes run: "cdmx" or "la"
  procs,    \* the processes running that script against the same table file
  now,      \* the wall clock (UTC)
  ticks,    \* hours the clock has advanced
  runs,     \* capture runs started
  file,     \* the table file: whether it exists, whether it can be read and parsed, its text rows
  version,  \* how many times the table file has been written
  pc,       \* each process's place in capturar_hora_actual_*
  loc,      \* each process's local variables
  obs,      \* each process's record of what happened to its run
  lagIn,    \* the target and stream the lag resolvers are applied to on their own
  lagOut,   \* what they returned
  curIn,    \* the sensors and readings the current-reading functions are applied to on their own
  curOut,   \* what they returned
  loop      \* the polling loop of ejecutar_captura_continua_*, when the script runs in that mode

runVars == <<variant, procs, now, ticks, runs, file, version, pc, loc, obs>>

lagVars == <<lagIn, lagOut>>

curVars == <<curIn, curOut>>

vars ==
  <<variant, procs, now, ticks, runs, file, version, pc, loc, obs, lagIn, lagOut,
    curIn, curOut, loop>>

NoFrame == [dtype |-> <<>>, rows |-> <<>>]

loc0 ==
  [ sensor_mapping |-> <<>>, hour |-> 0, today |-> 0, target |-> 0,
    df_hourly |-> <<>>, radiation_sum |-> NaN,
    air_quality_data |-> <<>>, location_id |-> 0,
    new_row |-> <<>>, all_rows |-> <<>>, df_final |-> NoFrame ]

\* weather_failed: the weather request failed.  no_sensors: location
\* resolution returned no sensor descriptor.  failed: the features whose own
\* request failed.  ideal: the values the features resolved so far would have
\* with no request failing; malformed: a reading without a value would end
\* the assembly even with no request failing.  The three are kept while the
\* row is under construction.  no_match: the weather payload had no record of
\* the hour.  saw: the file version read by the persist step; unreadable: the
\* file was there and could not be read; base_len: the rows read; wrote: the
\* writes of the run; at: the file version its write produced.  steps: what
\* the run has done so far, in order: "FETCH_SENSORS" a request for the sensor
\* descriptors of a location, "FETCH_WEATHER" the weather request,
\* "RESOLVE_LOCATION" the search for a location, "FETCH_CURRENT_READINGS" the
\* requests for the current readings, "RESOLVE_LAGS" the four lag values
\* set, "BUILD_ROW" the row finished and appended to all_rows, "PERSIST" the
\* save step entered with a row, "DONE" the function returned.  clock: the
\* time the run read from the wall clock, -1 before it has.
obs0 ==
  [ weather_failed |-> FALSE, no_sensors |-> FALSE, failed |-> {}, ideal |-> <<>>,
    malformed |-> FALSE, no_match |-> FALSE,
    saw |-> 0, unreadable |-> FALSE, base_len |-> 0, wrote |-> 0, at |-> 0,
    steps |-> <<>>, clock |-> -1 ]

\* The polling loop before it starts, and while the script is run for a single
\* capture.  pc: where the loop is; ultima_hora_procesada and hora_actual: its
\* two variables; interrupted: a KeyboardInterrupt stopped it; captured: the
\* clock hours the runs it has called captured.
loop0 ==
  [ on |-> FALSE, pc |-> "poll", ultima_hora_procesada |-> -1, hora_actual |-> -1,
    interrupted |-> FALSE, captured |-> {} ]

\* No input and no result of the current-reading functions on their own.
cur0 == [target |-> 0, sensors |-> <<>>, streams |-> <<>>, latest |-> <<>>]

\* What is left of a run's record once capturar_hora_actual_* has returned.
Returned(o) ==
  [o EXCEPT !.failed = {}, !.ideal = <<>>, !.malformed = FALSE, !.steps = @ \o <<"DONE">>]

\* -------------------------------------------------------------------- inputs
SeqsUpTo(S, n) == UNION {[1..m -> S] : m \in 0..n}

\* Monday 2024-01-01 05:00 UTC: Sunday night in both cities, and midnight of
\* Monday in Mexico City one hour later.
StartTimes == {5 * HOUR}

\* One process making single captures draws what the services answer from the
\* sets below; two processes, and the polling loop, draw from smaller ones,
\* which keeps the product of their runs within reach.
Alone == Cardinality(procs) = 1 /\ ~loop.on

Sensors(names) == [i \in DOMAIN names |-> [id |-> i, name |-> names[i]]]

\* The sensor lists the CDMX location returns.
SensorLists ==
  {Sensors(names) : names \in IF Alone THEN SeqsUpTo(SensorNames, MaxSensors)
                              ELSE {<<>>, <<"pm25 ug/m3">>}}

Values == {IntCell(1), FloatCell(2)}

Reading(t, value) == [t |-> t, parses |-> TRUE, value |-> value]

\* Readings of the current hour, and one that ended before it began.
CurrentReadings(target) ==
  IF Alone
  THEN {Reading(target + 20, v) : v \in Values \cup {Missing}} \cup {Reading(target - 10, IntCell(1))}
  ELSE {Reading(target + 20, IntCell(1))}

\* Readings around the instant three hours before the target.
LagReadings(target) ==
  IF Alone
  THEN {Reading(target - 3 * HOUR - 10, FloatCell(2)), Reading(target - 3 * HOUR + 20, FloatCell(2)),
        Reading(target - 3 * HOUR + 20, Missing)}
  ELSE {Reading(target - 3 * HOUR + 20, FloatCell(2))}

\* The weather payloads: the hours of the day they cover (the whole day, or
\* a series cut off after two hours) and the daily sum.
WeatherPayloads == [n_hours : IF Alone THEN {2, 24} ELSE {24}, radiation_sum : {FloatCell(18)}]

\* The lag offsets whose request fails in a run.
LagFailures == IF Alone THEN {{}, {3}} ELSE {{}}

\* The sensor lists of the locations a search returns.
LocationSensors ==
  {Sensors(names) : names \in IF Alone
                              THEN {<<>>, <<"co ppm">>, <<"PM25 raw">>, <<"co ppm", "pm25 ug/m3">>}
                              ELSE {<<>>, <<"co ppm", "pm25 ug/m3">>}}

LocationLists ==
  {[i \in DOMAIN ss |-> [id |-> i, sensors |-> ss[i]]] :
     ss \in SeqsUpTo(LocationSensors, IF Alone THEN 2 ELSE 1)}

\* The sensor lists the sensors request of a location returns.
LagSensors ==
  {Sensors(names) : names \in IF Alone
                              THEN {<<>>, <<"co ppm">>, <<"pm25 ug/m3">>, <<"co ppm", "PM25 raw">>}
                              ELSE {<<"pm25 ug/m3">>}}

\* The latest measurements of a location.
LatestLists ==
  IF Alone THEN SeqsUpTo([sensorsId : 1..MaxSensors, value : Values], MaxStream)
  ELSE {<<>>, <<[sensorsId |-> 2, value |-> IntCell(1)]>>}

\* ---------------------------------------------------------------------- Init
InitRun ==
  /\ variant \in {"cdmx", "la"}
  /\ now \in StartTimes
  /\ ticks = 0
  /\ runs = 0
  /\ version = 0
  /\ pc = [p \in procs |-> "idle"]
  /\ loc = [p \in procs |-> loc0]
  /\ obs = [p \in procs |-> obs0]
  /\ lagIn = [target |-> 0, stream |-> <<>>]
  /\ lagOut = <<>>
  /\ curIn = cur0
  /\ curOut = <<>>

Absent == [exists |-> FALSE, readable |-> FALSE, rows |-> <<>>]

\* A table of one row, as a run at midnight of day 0 without sensors leaves it.
StoredTable ==
  LET target == combine(0, 0) - LA_SHIFT
      new_row == AddLags(WeatherRow(target, HourlyFrame(0, 24, HourlyVars)[1], FloatCell(18)),
                         NoLags)
  IN  to_csv(DataFrame(<<AddCalendar(new_row, 0, target)>>))

\* One process, started where there is no table yet.
Init == procs = {1} /\ InitRun /\ file = Absent /\ loop = loop0

\* Two processes capturing into the same table file, absent or with one row.
InitConc ==
  /\ procs = {1, 2}
  /\ InitRun
  /\ file \in {Absent, [exists |-> TRUE, readable |-> TRUE, rows |-> StoredTable]}
  /\ loop = loop0

\* ------------------------------------------------------------------- actions
\* The script is started (or, in continuous mode, a new hour is detected):
\* capturar_hora_actual_* begins.
BeginRun(p) ==
  /\ ~loop.on
  /\ pc[p] \in {"idle", "done", "crashed"}
  /\ runs < MaxRuns
  /\ runs' = runs + 1
  /\ pc' = [pc EXCEPT ![p] = "start"]
  /\ loc' = [loc EXCEPT ![p] = loc0]
  /\ obs' = [obs EXCEPT ![p] = obs0]
  /\ UNCHANGED <<variant, procs, now, ticks, file, version, lagVars, curVars, loop>>

\* CDMX: sensor_mapping = obtener_sensores_cdmx(...); return None when empty.
ResolveSensorsCdmx(p) ==
  /\ variant = "cdmx" /\ pc[p] = "start"
  /\ \E ok \in BOOLEAN, sensors_list \in SensorLists :
       /\ ok \/ sensors_list = <<>>
       /\ LET sensor_mapping == obtener_sensores_cdmx(ok, sensors_list)
          IN  /\ loc' = [loc EXCEPT ![p].sensor_mapping = sensor_mapping]
              /\ obs' = [obs EXCEPT ![p].no_sensors = (sensor_mapping = <<>>),
                                    ![p].steps = IF sensor_mapping = <<>>
                                                 THEN <<"FETCH_SENSORS", "DONE">>
                                                 ELSE <<"FETCH_SENSORS">>]
              /\ pc' = [pc EXCEPT ![p] = IF sensor_mapping = <<>> THEN "done" ELSE "weather"]
  /\ UNCHANGED <<variant, procs, now, ticks, runs, file, version, lagVars, curVars, loop>>

\* CDMX: the clock is read and the weather of the day fetched, outside the
\* try block: an exception of the request leaves the function.
FetchWeatherCdmx(p) ==
  /\ variant = "cdmx" /\ pc[p] = "weather"
  /\ \/ /\ pc' = [pc EXCEPT ![p] = "crashed"]
        /\ obs' = [obs EXCEPT ![p].weather_failed = TRUE,
                              ![p].steps = @ \o <<"FETCH_WEATHER">>,
                              ![p].clock = now]
        /\ loc' = [loc EXCEPT ![p] = loc0]
     \/ \E w \in WeatherPayloads :
          /\ pc' = [pc EXCEPT ![p] = "build"]
          /\ loc' = [loc EXCEPT ![p].hour = HourOf(now), ![p].today = DateOf(now),
                                ![p].df_hourly = HourlyFrame(DateOf(now), w.n_hours, HourlyVars),
                                ![p].radiation_sum = w.radiation_sum]
          /\ obs' = [obs EXCEPT ![p].steps = @ \o <<"FETCH_WEATHER">>, ![p].clock = now]
  /\ UNCHANGED <<variant, procs, now, ticks, runs, file, version, lagVars, curVars, loop>>

\* CDMX: the target timestamp, the weather record of the hour and the new row
\* with the weather in it; without a record no row is built.
BuildRowCdmx(p) ==
  /\ variant = "cdmx" /\ pc[p] = "build"
  /\ LET target == combine(loc[p].today, loc[p].hour) - CDMX_SHIFT
         matching_weather == MatchingWeather(loc[p].df_hourly, loc[p].hour)
     IN  IF matching_weather = <<>>
         THEN /\ loc' = [loc EXCEPT ![p].target = target]
              /\ obs' = [obs EXCEPT ![p].no_match = TRUE]
              /\ pc' = [pc EXCEPT ![p] = "persist"]
         ELSE /\ loc' = [loc EXCEPT ![p].target = target,
                                    ![p].new_row = WeatherRow(target, matching_weather[1],
                                                              loc[p].radiation_sum)]
              /\ obs' = obs
              /\ pc' = [pc EXCEPT ![p] = "current"]
  /\ UNCHANGED <<variant, procs, now, ticks, runs, file, version, lagVars, curVars, loop>>

SensorIds(sensor_mapping) == {sensor_mapping[i].id : i \in DOMAIN sensor_mapping}

\* The pollutants whose sensor is among the ids.
ParamsOf(sensor_mapping, ids) ==
  {PARAMETER_MAPPING[sensor_mapping[i].name] :
     i \in {j \in DOMAIN sensor_mapping : /\ sensor_mapping[j].id \in ids
                                          /\ sensor_mapping[j].name \in DOMAIN PARAMETER_MAPPING}}

\* CDMX: the current readings, one request per mapped sensor.
FetchCurrentCdmx(p) ==
  /\ variant = "cdmx" /\ pc[p] = "current"
  /\ LET ids == SensorIds(loc[p].sensor_mapping) IN
     \E streams \in [ids -> SeqsUpTo(CurrentReadings(loc[p].target), MaxStream)],
        down \in SUBSET ids :
       LET got == obtener_datos_openaq_cdmx_hora(loc[p].sensor_mapping, loc[p].target, streams, down)
           all == obtener_datos_openaq_cdmx_hora(loc[p].sensor_mapping, loc[p].target, streams, {})
       IN  /\ obs' = [obs EXCEPT ![p].failed = ParamsOf(loc[p].sensor_mapping, down),
                                 ![p].ideal = all.data,
                                 ![p].malformed = all.raised,
                                 ![p].steps = @ \o <<"FETCH_CURRENT_READINGS">>]
           /\ IF got.raised
              THEN /\ loc' = [loc EXCEPT ![p].all_rows = except_handler(loc[p].all_rows, loc[p].new_row)]
                   /\ pc' = [pc EXCEPT ![p] = "persist"]
              ELSE /\ loc' = [loc EXCEPT ![p].air_quality_data = got.data,
                                         ![p].new_row = AddPollutants(loc[p].new_row, got.data)]
                   /\ pc' = [pc EXCEPT ![p] = "lags"]
  /\ UNCHANGED <<variant, procs, now, ticks, runs, file, version, lagVars, curVars, loop>>

LagColumnsOf(hours) == {lag_columns[i] : i \in {j \in DOMAIN lag_hours : lag_hours[j] \in hours}}

Merge(f, g) == [x \in DOMAIN f \cup DOMAIN g |-> IF x \in DOMAIN g THEN g[x] ELSE f[x]]

\* The row with its lags and its calendar fields, appended to all_rows.  The
\* locals that are not read again after this are let go.
RowAppended(l, lag_data) ==
  LET new_row == AddCalendar(AddLags(l.new_row, lag_data), l.hour, l.target)
  IN  [l EXCEPT !.new_row = new_row, !.all_rows = Append(l.all_rows, new_row),
                !.sensor_mapping = <<>>, !.df_hourly = <<>>,
                !.air_quality_data = <<>>, !.location_id = 0]

\* CDMX: the four lag values, one request per offset to the pm25 sensor; then
\* the calendar fields are set and the row is appended to all_rows.
ResolveLagsCdmx(p) ==
  /\ variant = "cdmx" /\ pc[p] = "lags"
  /\ LET has_pm25 == \E i \in DOMAIN loc[p].sensor_mapping : HasPm25(loc[p].sensor_mapping[i].name) IN
     \E stream \in SeqsUpTo(LagReadings(loc[p].target), MaxStream),
        down \in LagFailures :
       /\ has_pm25 \/ (stream = <<>> /\ down = {})
       /\ LET got == obtener_pm25_lag_cdmx(loc[p].sensor_mapping, loc[p].target, stream, down)
              all == obtener_pm25_lag_cdmx(loc[p].sensor_mapping, loc[p].target, stream, {})
          IN  /\ obs' = [obs EXCEPT ![p].failed = @ \cup LagColumnsOf(down),
                                    ![p].ideal = Merge(@, all.data),
                                    ![p].malformed = all.raised,
                                    ![p].steps = @ \o (IF got.raised THEN <<"RESOLVE_LAGS">>
                                                       ELSE <<"RESOLVE_LAGS", "BUILD_ROW">>)]
              /\ IF got.raised
                 THEN /\ loc' = [loc EXCEPT ![p].all_rows = except_handler(loc[p].all_rows, loc[p].new_row)]
                      /\ pc' = [pc EXCEPT ![p] = "persist"]
                 ELSE /\ loc' = [loc EXCEPT ![p] = RowAppended(@, got.data)]
                      /\ pc' = [pc EXCEPT ![p] = "persist"]
  /\ UNCHANGED <<variant, procs, now, ticks, runs, file, version, lagVars, curVars, loop>>

\* LA: the clock is read and, inside the try block, the target timestamp is
\* built and the weather of the day fetched; an exception of the request is
\* caught and no row is built.
FetchWeatherLa(p) ==
  /\ variant = "la" /\ pc[p] = "start"
  /\ LET here == [loc EXCEPT ![p].hour = HourOf(now), ![p].today = DateOf(now),
                             ![p].target = combine(DateOf(now), HourOf(now)) - LA_SHIFT]
     IN  \/ /\ pc' = [pc EXCEPT ![p] = "persist"]
            /\ obs' = [obs EXCEPT ![p].weather_failed = TRUE,
                                  ![p].steps = @ \o <<"FETCH_WEATHER">>,
                                  ![p].clock = now]
            /\ loc' = [here EXCEPT ![p].all_rows = except_handler(loc[p].all_rows, loc[p].new_row)]
         \/ \E w \in WeatherPayloads :
              /\ pc' = [pc EXCEPT ![p] = "openaq"]
              /\ loc' = [here EXCEPT ![p].df_hourly = HourlyFrame(DateOf(now), w.n_hours, HourlyVars),
                                     ![p].radiation_sum = w.radiation_sum]
              /\ obs' = [obs EXCEPT ![p].steps = @ \o <<"FETCH_WEATHER">>, ![p].clock = now]
  /\ UNCHANGED <<variant, procs, now, ticks, runs, file, version, lagVars, curVars, loop>>

\* LA: get_openaq_data_la: the location search and the latest measurements.
ResolveLocationLa(p) ==
  /\ variant = "la" /\ pc[p] = "openaq"
  /\ \E search_ok \in BOOLEAN, locations \in LocationLists,
        latest_ok \in BOOLEAN, latest \in LatestLists :
       /\ search_ok \/ locations = <<>>
       /\ latest_ok \/ latest = <<>>
       /\ LET got == get_openaq_data_la(search_ok, locations, latest_ok, latest)
              all == get_openaq_data_la(search_ok, locations, TRUE, latest)
          IN  /\ got.location_id # 0 \/ (latest_ok /\ latest = <<>>)
              /\ loc' = [loc EXCEPT ![p].air_quality_data = got.air_quality_data,
                                    ![p].location_id = got.location_id]
              /\ obs' = [obs EXCEPT ![p].no_sensors =
                                      (~search_ok \/ \A i \in DOMAIN locations : locations[i].sensors = <<>>),
                                    ![p].failed = IF got.location_id # 0 /\ ~latest_ok
                                                  THEN Pollutants ELSE {},
                                    ![p].ideal = all.air_quality_data,
                                    ![p].steps = @ \o (IF got.location_id # 0
                                                       THEN <<"RESOLVE_LOCATION", "FETCH_CURRENT_READINGS">>
                                                       ELSE <<"RESOLVE_LOCATION">>)]
  /\ pc' = [pc EXCEPT ![p] = "build"]
  /\ UNCHANGED <<variant, procs, now, ticks, runs, file, version, lagVars, curVars, loop>>

\* LA: the weather record of the hour and the new row with the weather and
\* the pollutants in it; without a record no row is built.
BuildRowLa(p) ==
  /\ variant = "la" /\ pc[p] = "build"
  /\ LET matching_rows == MatchingWeather(loc[p].df_hourly, loc[p].hour)
     IN  IF matching_rows = <<>>
         THEN /\ loc' = loc
              /\ obs' = [obs EXCEPT ![p].no_match = TRUE]
              /\ pc' = [pc EXCEPT ![p] = "persist"]
         ELSE /\ loc' = [loc EXCEPT ![p].new_row =
                           AddPollutants(WeatherRow(loc[p].target, matching_rows[1],
                                                    loc[p].radiation_sum),
                                         loc[p].air_quality_data)]
              /\ obs' = obs
              /\ pc' = [pc EXCEPT ![p] = "lags"]
  /\ UNCHANGED <<variant, procs, now, ticks, runs, file, version, lagVars, curVars, loop>>

\* LA: the four lag values: with a location, its sensors are fetched and one
\* request per offset goes to the pm25 sensor; without one all four are None.
\* Then the calendar fields are set and the row is appended to all_rows.
ResolveLagsLa(p) ==
  /\ variant = "la" /\ pc[p] = "lags"
  /\ IF loc[p].location_id # 0
     THEN \E ok \in BOOLEAN, sensors_list \in LagSensors,
             stream \in SeqsUpTo(LagReadings(loc[p].target), MaxStream),
             down \in LagFailures :
            LET sensores == obtener_sensores_ubicacion_la(ok, sensors_list)
                has_pm25 == \E i \in DOMAIN sensores : HasPm25(sensores[i].name)
                got == obtener_pm25_historico_la(sensores, loc[p].target, stream, down)
                all == obtener_pm25_historico_la(sensors_list, loc[p].target, stream, {})
            IN  /\ ok \/ sensors_list = <<>>
                /\ has_pm25 \/ (stream = <<>> /\ down = {})
                /\ loc' = [loc EXCEPT ![p] = RowAppended(@, got)]
                /\ obs' = [obs EXCEPT ![p].failed = @ \cup LagColumnsOf(down),
                                      ![p].ideal = Merge(@, all),
                                      ![p].steps = @ \o <<"FETCH_SENSORS", "RESOLVE_LAGS", "BUILD_ROW">>]
     ELSE /\ loc' = [loc EXCEPT ![p] = RowAppended(@, NoLags)]
          /\ obs' = [obs EXCEPT ![p].steps = @ \o <<"RESOLVE_LAGS", "BUILD_ROW">>]
  /\ pc' = [pc EXCEPT ![p] = "persist"]
  /\ UNCHANGED <<variant, procs, now, ticks, runs, file, version, lagVars, curVars, loop>>

\* The save step without its test "if all_rows": it goes on to read and write
\* whether or not a row was appended.
PersistReadUnguarded(p) ==
  /\ pc[p] = "persist"
  /\ pc' = [pc EXCEPT ![p] = "write"]
  /\ loc' = [loc EXCEPT ![p].df_final = df_final_of(file, loc[p].all_rows)]
  /\ obs' = [obs EXCEPT ![p].saw = version,
                        ![p].unreadable = (file.exists /\ ~file.readable),
                        ![p].base_len = IF file.exists /\ file.readable
                                        THEN Len(file.rows) ELSE 0,
                        ![p].steps = @ \o <<"PERSIST">>]
  /\ UNCHANGED <<variant, procs, now, ticks, runs, file, version, lagVars, curVars, loop>>

\* Both: if all_rows: the existing table is read, if there is one, and
\* df_final is built; else: return None.
PersistRead(p) ==
  /\ pc[p] = "persist"
  /\ IF loc[p].all_rows = <<>>
     THEN /\ pc' = [pc EXCEPT ![p] = "done"]
          /\ loc' = [loc EXCEPT ![p] = loc0]
          /\ obs' = [obs EXCEPT ![p] = Returned(@)]
     ELSE /\ pc' = [pc EXCEPT ![p] = "write"]
          /\ loc' = [loc EXCEPT ![p].df_final = df_final_of(file, loc[p].all_rows)]
          /\ obs' = [obs EXCEPT ![p].saw = version,
                                ![p].unreadable = (file.exists /\ ~file.readable),
                                ![p].base_len = IF file.exists /\ file.readable
                                                THEN Len(file.rows) ELSE 0,
                                ![p].steps = @ \o <<"PERSIST">>]
  /\ UNCHANGED <<variant, procs, now, ticks, runs, file, version, lagVars, curVars, loop>>

\* The write as an append to what the file holds at that moment.
PersistWriteAppend(p) ==
  /\ pc[p] = "write"
  /\ file' = [exists |-> TRUE, readable |-> TRUE,
              rows |-> file.rows \o to_csv(DataFrame(loc[p].all_rows))]
  /\ version' = version + 1
  /\ obs' = [obs EXCEPT ![p] = Returned([@ EXCEPT !.wrote = @ + 1, !.at = version + 1])]
  /\ loc' = [loc EXCEPT ![p] = loc0]
  /\ pc' = [pc EXCEPT ![p] = "done"]
  /\ UNCHANGED <<variant, procs, now, ticks, runs, lagVars, curVars, loop>>

\* Both: df_final.to_csv(filename, index=False) overwrites the table file.
PersistWrite(p) ==
  /\ pc[p] = "write"
  /\ file' = [exists |-> TRUE, readable |-> TRUE, rows |-> to_csv(loc[p].df_final)]
  /\ version' = version + 1
  /\ obs' = [obs EXCEPT ![p] = Returned([@ EXCEPT !.wrote = @ + 1, !.at = version + 1])]
  /\ loc' = [loc EXCEPT ![p] = loc0]
  /\ pc' = [pc EXCEPT ![p] = "done"]
  /\ UNCHANGED <<variant, procs, now, ticks, runs, lagVars, curVars, loop>>

\* The wall clock reaches the next hour.  A run reads the clock once: for
\* single captures only the hours that pass between runs are told apart; under
\* the polling loop, which reads the clock itself before it calls a run, the
\* hour may pass at any moment.
Tick ==
  /\ ticks < MaxTicks
  /\ loop.on \/ \A p \in procs : pc[p] \in {"idle", "done", "crashed"}
  /\ ticks' = ticks + 1
  /\ now' = now + HOUR
  /\ UNCHANGED <<variant, procs, runs, file, version, pc, loc, obs, lagVars, curVars, loop>>

\* The table file is damaged from outside, so that it no longer parses.  A
\* run reads the file at one step, so only damage done between runs is told
\* apart.
Damage ==
  /\ file.exists /\ file.readable
  /\ \A p \in procs : pc[p] \in {"idle", "done", "crashed"}
  /\ file' = [file EXCEPT !.readable = FALSE]
  /\ UNCHANGED <<variant, procs, now, ticks, runs, version, pc, loc, obs, lagVars, curVars, loop>>

Next ==
  \/ Tick
  \/ Damage
  \/ \E p \in procs : BeginRun(p)
  \/ \E p \in procs : ResolveSensorsCdmx(p)
  \/ \E p \in procs : FetchWeatherCdmx(p)
  \/ \E p \in procs : BuildRowCdmx(p)
  \/ \E p \in procs : FetchCurrentCdmx(p)
  \/ \E p \in procs : ResolveLagsCdmx(p)
  \/ \E p \in procs : FetchWeatherLa(p)
  \/ \E p \in procs : ResolveLocationLa(p)
  \/ \E p \in procs : BuildRowLa(p)
  \/ \E p \in procs : ResolveLagsLa(p)
  \/ \E p \in procs : PersistRead(p)
  \/ \E p \in procs : PersistWrite(p)

Spec == Init /\ [][Next]_vars

SpecConc == InitConc /\ [][Next]_vars

\* -------------------------------------------------------- the polling loop
\* ejecutar_captura_continua_*: the loop reads the clock and, when the hour
\* differs from ultima_hora_procesada, calls capturar_hora_actual_*; else it
\* goes to sleep.
LoopPoll(p) ==
  /\ loop.on /\ loop.pc = "poll"
  /\ LET hora_actual == HourOf(now)
     IN  IF hora_actual # loop.ultima_hora_procesada
         THEN /\ runs < MaxRuns
              /\ runs' = runs + 1
              /\ pc' = [pc EXCEPT ![p] = "start"]
              /\ loc' = [loc EXCEPT ![p] = loc0]
              /\ obs' = [obs EXCEPT ![p] = obs0]
              /\ loop' = [loop EXCEPT !.pc = "run", !.hora_actual = hora_actual]
         ELSE /\ loop' = [loop EXCEPT !.pc = "sleep", !.hora_actual = hora_actual]
              /\ UNCHANGED <<runs, pc, loc, obs>>
  /\ UNCHANGED <<variant, procs, now, ticks, file, version, lagVars, curVars>>

\* The run called by the loop has returned: ultima_hora_procesada =
\* hora_actual, and the loop goes to sleep.
LoopReturn(p) ==
  /\ loop.on /\ loop.pc = "run" /\ pc[p] = "done"
  /\ loop' = [loop EXCEPT !.pc = "sleep",
                          !.ultima_hora_procesada = loop.hora_actual,
                          !.captured = IF obs[p].clock = -1 THEN @ ELSE @ \cup {obs[p].clock}]
  /\ UNCHANGED <<runVars, lagVars, curVars>>

\* The run called by the loop has ended by an exception: the loop's try has
\* no clause for it (only for KeyboardInterrupt), so it leaves the loop.
LoopRaise(p) ==
  /\ loop.on /\ loop.pc = "run" /\ pc[p] = "crashed"
  /\ loop' = [loop EXCEPT !.pc = "stopped"]
  /\ UNCHANGED <<runVars, lagVars, curVars>>

\* time.sleep(30) is over: the loop polls again.
LoopSleep ==
  /\ loop.on /\ loop.pc = "sleep"
  /\ loop' = [loop EXCEPT !.pc = "poll"]
  /\ UNCHANGED <<runVars, lagVars, curVars>>

\* KeyboardInterrupt: the loop stops wherever it is, and a run under way is
\* given up where it is.
Interrupt(p) ==
  /\ loop.on /\ loop.pc # "stopped" /\ pc[p] # "crashed"
  /\ loop' = [loop EXCEPT !.pc = "stopped", !.interrupted = TRUE]
  /\ pc' = [pc EXCEPT ![p] = IF @ \in {"idle", "done"} THEN @ ELSE "interrupted"]
  /\ loc' = [loc EXCEPT ![p] = loc0]
  /\ UNCHANGED <<variant, procs, now, ticks, runs, file, version, obs, lagVars, curVars>>

\* The script started with --continuo, where there is no table yet.
InitLoop == procs = {1} /\ InitRun /\ file = Absent /\ loop = [loop0 EXCEPT !.on = TRUE]

NextLoop ==
  \/ Tick
  \/ Damage
  \/ LoopSleep
  \/ \E p \in procs : LoopPoll(p)
  \/ \E p \in procs : LoopReturn(p)
  \/ \E p \in procs : LoopRaise(p)
  \/ \E p \in procs : Interrupt(p)
  \/ \E p \in procs : ResolveSensorsCdmx(p)
  \/ \E p \in procs : FetchWeatherCdmx(p)
  \/ \E p \in procs : BuildRowCdmx(p)
  \/ \E p \in procs : FetchCurrentCdmx(p)
  \/ \E p \in procs : ResolveLagsCdmx(p)
  \/ \E p \in procs : FetchWeatherLa(p)
  \/ \E p \in procs : ResolveLocationLa(p)
  \/ \E p \in procs : BuildRowLa(p)
  \/ \E p \in procs : ResolveLagsLa(p)
  \/ \E p \in procs : PersistRead(p)
  \/ \E p \in procs : PersistWrite(p)

SpecLoop == InitLoop /\ [][NextLoop]_vars

\* ------------------------------------------------- the lag resolvers alone
\* The instant the lag resolvers are asked about, and the readings a pm25
\* stream may hold around the instants 3 h and 24 h before it: early or late
\* by up to 40 minutes, with a time text that parses or not.
LagTarget == 5 * DAY + 8 * HOUR

LagStreamReadings ==
  {[t |-> LagTarget - h * HOUR + d, parses |-> ok, value |-> v] :
     h \in {3, 24}, d \in {0 - 40, 0 - 30, 0 - 10, 10, 30, 40}, ok \in BOOLEAN, v \in Values}

InitLag ==
  /\ procs = {1}
  /\ variant = "la"
  /\ now = LagTarget
  /\ ticks = 0
  /\ runs = 0
  /\ file = Absent
  /\ version = 0
  /\ pc = [p \in procs |-> "idle"]
  /\ loc = [p \in procs |-> loc0]
  /\ obs = [p \in procs |-> obs0]
  /\ lagIn \in [target : {LagTarget}, stream : SeqsUpTo(LagStreamReadings, MaxLagReadings)]
  /\ lagOut = <<>>
  /\ curIn = cur0
  /\ curOut = <<>>
  /\ loop = loop0

\* Both variants' lag resolvers, and the nearest-reading choice on its own,
\* applied to the same target and the same pm25 stream, no request failing.
ApplyLag ==
  /\ lagOut = <<>>
  /\ LET lag_target == lagIn.target - lag_hours[1] * HOUR
         best == MejorMedicion(lagIn.stream, 1, lag_target, 0, INITIAL_DIFF)
     IN  lagOut' =
           [ selected |-> best.mejor,
             nearest |-> NearestValue(lagIn.stream, lag_target),
             cdmx |-> obtener_pm25_lag_cdmx(<<[name |-> "pm25 ug/m3", id |-> 1]>>,
                                            lagIn.target, lagIn.stream, {}).data,
             la |-> obtener_pm25_historico_la(Sensors(<<"pm25 ug/m3">>),
                                              lagIn.target, lagIn.stream, {}) ]
  /\ UNCHANGED <<runVars, lagIn, curVars, loop>>

NextLag == ApplyLag

SpecLag == InitLag /\ [][NextLag]_vars

\* ------------------------------------- the current-reading functions alone
\* The sensor chosen for the pm25 lag requests, 0 for None: by
\* obtener_pm25_lag_cdmx from the name -> id mapping, by
\* obtener_pm25_historico_la from the list of descriptors.
Pm25SensorCdmx(sensor_mapping) ==
  IF Pm25Index(sensor_mapping) = 0 THEN 0
  ELSE sensor_mapping[Pm25Index(sensor_mapping)].id

Pm25SensorLa(sensores) ==
  IF Pm25Index(sensores) = 0 THEN 0 ELSE sensores[Pm25Index(sensores)].id

\* The hour the functions are asked about; the readings a sensor's stream may
\* hold, ending before the hour began or within it; the descriptors a
\* location may return, names repeated or not; the measurements a latest
\* list may hold, each with the sensor it is of and the time it was taken.
CurTarget == 5 * DAY + 8 * HOUR

CurStreamReadings == {Reading(CurTarget + d, v) : d \in {0 - 10, 20}, v \in Values}

CurSensorLists == {Sensors(names) : names \in SeqsUpTo(SensorNames, MaxSensors)}

CurLatest == [sensorsId : 1..MaxSensors, value : Values, t : {CurTarget - 10, CurTarget + 20}]

\* Either the streams of the sensors or the latest list has readings.
CurInputs ==
  {[target |-> CurTarget, sensors |-> sensors, streams |-> streams, latest |-> <<>>] :
     sensors \in CurSensorLists,
     streams \in [1..MaxSensors -> SeqsUpTo(CurStreamReadings, MaxCurrent)]}
  \cup
  {[target |-> CurTarget, sensors |-> sensors,
    streams |-> [i \in 1..MaxSensors |-> <<>>], latest |-> latest] :
     sensors \in CurSensorLists, latest \in SeqsUpTo(CurLatest, MaxCurrent)}

InitCurrent ==
  /\ procs = {1}
  /\ variant = "cdmx"
  /\ now = CurTarget
  /\ ticks = 0
  /\ runs = 0
  /\ file = Absent
  /\ version = 0
  /\ pc = [p \in procs |-> "idle"]
  /\ loc = [p \in procs |-> loc0]
  /\ obs = [p \in procs |-> obs0]
  /\ lagIn = [target |-> 0, stream |-> <<>>]
  /\ lagOut = <<>>
  /\ curIn \in CurInputs
  /\ curOut = <<>>
  /\ loop = loop0

\* Both variants' sensor resolution and current readings applied to the same
\* descriptors, no request failing: the CDMX name -> id mapping, the
\* pollutant fields of the row each variant fills, and the sensor each
\* variant picks for the pm25 lag requests.
ApplyCurrent ==
  /\ curOut = <<>>
  /\ LET sensor_mapping == obtener_sensores_cdmx(TRUE, curIn.sensors)
         cdmx == obtener_datos_openaq_cdmx_hora(sensor_mapping, curIn.target,
                                                curIn.streams, {})
         la == get_openaq_data_la(TRUE, <<[id |-> 1, sensors |-> curIn.sensors]>>,
                                  TRUE, curIn.latest)
     IN  curOut' =
           [ sensor_mapping |-> sensor_mapping,
             cdmx |-> AddPollutants(EmptyRow, cdmx.data),
             cdmx_pm25 |-> Pm25SensorCdmx(sensor_mapping),
             la |-> AddPollutants(EmptyRow, la.air_quality_data),
             la_pm25 |-> Pm25SensorLa(obtener_sensores_ubicacion_la(TRUE, curIn.sensors)) ]
  /\ UNCHANGED <<runVars, lagVars, curIn, loop>>

NextCurrent == ApplyCurrent

SpecCurrent == InitCurrent /\ [][NextCurrent]_vars

\* ==================================================================== claims
CalendarFields == {"hour_of_day", "day_of_week", "month_of_year", "is_weekend"}

LagFields == Range(lag_columns)

\* A process takes the write step of its persist.
Writes(p) == pc[p] = "write" /\ pc'[p] = "done"

\* ------------------------------------------------------------------------ C1
\* C1: the write of a persist leaves a table of one row more than the table
\* it read (one row when there was none), whose earlier rows are the rows of
\* the table before, in their order and unchanged.
C1_ExistingRowsKept ==
  [][\A p \in procs :
       Writes(p) =>
         /\ Len(file'.rows) = obs[p].base_len + 1
         /\ \A i \in 1..obs[p].base_len : file'.rows[i] = file.rows[i]]_vars

\* ------------------------------------------------------------------------ C2
\* C2: when the table file exists and cannot be read, the persist goes on to
\* its write, and the file then holds the new row and nothing else.
C2_UnreadableOverwritten ==
  [][\A p \in procs :
       (Writes(p) /\ obs[p].unreadable) =>
         /\ file'.exists /\ file'.readable
         /\ file'.rows = to_csv(DataFrame(<<loc[p].new_row>>))]_vars

\* A run has overwritten, with its one row, a table written before and
\* damaged since.
C2_Witness ==
  \E p \in procs :
    /\ pc[p] = "done" /\ obs[p].unreadable /\ obs[p].wrote = 1
    /\ version = 2 /\ Len(file.rows) = 1

\* ------------------------------------------------------------------------ C3
\* C3: when two runs both read the table before either writes, the table
\* after both writes is the one the last writer read with one row added: the
\* other run's row is lost.
C3_LastWriterWins ==
  \A p, q \in procs :
    ( /\ p # q
      /\ pc[p] = "done" /\ pc[q] = "done"
      /\ obs[p].wrote = 1 /\ obs[q].wrote = 1
      /\ obs[p].saw = obs[q].saw
      /\ obs[q].at < obs[p].at /\ obs[p].at = version )
    => Len(file.rows) = obs[p].base_len + 1

\* Two runs read the table of one row and wrote one after the other: the
\* table has two rows, not three.
C3_Witness ==
  \E p, q \in procs :
    /\ p # q
    /\ pc[p] = "done" /\ pc[q] = "done"
    /\ obs[p].wrote = 1 /\ obs[q].wrote = 1
    /\ obs[p].saw = obs[q].saw
    /\ obs[q].at < obs[p].at /\ obs[p].at = version
    /\ obs[p].base_len = 1 /\ obs[q].base_len = 1
    /\ Len(file.rows) = 2

\* ------------------------------------------------------------------------ C4
\* A row in memory on which every assembly step has acted: the timestamp, the
\* weather, the lags and the calendar fields are set.
Assembled(row) ==
  /\ CellAt(row, "timestamp").k = "datetime"
  /\ \A f \in HourlyVars : ~IsNull(CellAt(row, f))
  /\ \A f \in LagFields : CellAt(row, f) # NaN
  /\ \A f \in CalendarFields : ~IsNull(CellAt(row, f))

\* A row of the table that has its timestamp, weather and calendar fields.
Complete(row) ==
  \A f \in {"timestamp"} \cup HourlyVars \cup CalendarFields : ~IsNull(CellAt(row, f))

\* C4: a run writes the table at most once, and only when it holds exactly
\* one row on which every assembly step has acted; the table it writes has
\* one row more than the table it read, and no row of the table file is a
\* partially assembled one.
C4_OneCompleteRowOrNone ==
  /\ \A p \in procs :
       /\ obs[p].wrote <= 1
       /\ pc[p] = "write" =>
            /\ Len(loc[p].all_rows) = 1
            /\ Assembled(loc[p].all_rows[1])
            /\ Len(loc[p].df_final.rows) = obs[p].base_len + 1
  /\ \A i \in DOMAIN file.rows : Complete(file.rows[i])

\* A run whose assembly was ended by a reading without a value has returned
\* without writing, next to a table written by an earlier run.
C4_Witness ==
  \E p \in procs :
    /\ pc[p] = "done" /\ obs[p].wrote = 0 /\ ~obs[p].no_sensors
    /\ ~obs[p].weather_failed /\ ~obs[p].no_match
    /\ version = 1 /\ Len(file.rows) = 1

\* ------------------------------------------------------------------------ C5
\* C5: in both variants a run whose weather request fails holds no row, never
\* reaches the write and writes nothing.
C5_WeatherFailureNoRow ==
  \A p \in procs :
    obs[p].weather_failed =>
      /\ pc[p] \in {"crashed", "persist", "done"}
      /\ loc[p].all_rows = <<>>
      /\ obs[p].wrote = 0

\* A run whose weather request failed has ended, next to the table an earlier
\* run wrote.
C5_Witness ==
  \E p \in procs :
    /\ obs[p].weather_failed /\ pc[p] \in {"crashed", "done"}
    /\ version = 1 /\ file.exists /\ file.readable

\* ------------------------------------------------------------------------ C6
\* C6 as stated: in both variants a run that resolved no sensors, and whose
\* weather has a record of the hour, emits a row.
C6_RowWithoutSensors ==
  \A p \in procs :
    (pc[p] = "done" /\ obs[p].no_sensors /\ ~obs[p].weather_failed /\ ~obs[p].no_match)
    => obs[p].wrote = 1

\* C6 amended: a CDMX run that resolved no sensors returns at once, with no
\* row and nothing written; an LA run that resolved no sensors, and whose
\* weather has a record of the hour, emits a row whose seven pollutant fields
\* and four lag fields are null and whose weather fields are those of the
\* record.
C6_RowWithoutSensorsLaOnly ==
  \A p \in procs :
    obs[p].no_sensors =>
      IF variant = "cdmx"
      THEN pc[p] = "done" /\ obs[p].wrote = 0 /\ loc[p].all_rows = <<>>
      ELSE /\ (pc[p] = "done" /\ ~obs[p].no_match) => obs[p].wrote = 1
           /\ pc[p] = "write" =>
                LET row == loc[p].all_rows[1]
                IN  /\ \A f \in Pollutants \cup LagFields : IsNull(CellAt(row, f))
                    /\ \A f \in HourlyVars : CellAt(row, f) = FloatCell(loc[p].hour)
                    /\ CellAt(row, "shortwave_radiation_sum") = loc[p].radiation_sum

\* An LA run that resolved no sensors has written its row.
C6_Witness ==
  \E p \in procs :
    variant = "la" /\ obs[p].no_sensors /\ pc[p] = "done" /\ obs[p].wrote = 1

\* ------------------------------------------------------------------------ C7
\* C7: in a row that was appended, every feature whose own request
\* failed is null in it and every other feature resolved has the value it
\* would have had with no request failing; and a failed request never ends
\* the assembly: a run with one that reaches the persist step without a row
\* had no weather record or met a reading without a value.
C7_FailedFetchNullsItsFeature ==
  \A p \in procs :
    /\ (pc[p] \in {"persist", "write"} /\ loc[p].all_rows # <<>>) =>
         /\ \A f \in obs[p].failed : IsNull(CellAt(loc[p].new_row, f))
         /\ \A f \in DOMAIN obs[p].ideal \ obs[p].failed :
              CellAt(loc[p].new_row, f) = obs[p].ideal[f]
    /\ (pc[p] = "persist" /\ obs[p].failed # {} /\ ~obs[p].malformed /\ ~obs[p].no_match) =>
         loc[p].all_rows # <<>>

\* A row about to be written in which a failed request cost one feature its
\* value and another feature has its value.
C7_Witness ==
  \E p \in procs :
    /\ pc[p] = "write"
    /\ \E f \in obs[p].failed : f \in DOMAIN obs[p].ideal /\ ~IsNull(obs[p].ideal[f])
    /\ \E f \in DOMAIN obs[p].ideal \ obs[p].failed : ~IsNull(CellAt(loc[p].new_row, f))

\* ------------------------------------------------------------------------ C8
\* C8 as stated: every emitted row has exactly the fields of the schema, 23
\* of them.
C8_SchemaOf23 ==
  \A p \in procs :
    pc[p] = "write" =>
      \A i \in DOMAIN loc[p].all_rows :
        /\ DOMAIN loc[p].all_rows[i] = Schema
        /\ Cardinality(DOMAIN loc[p].all_rows[i]) = 23

\* C8 amended: every emitted row, and every row of the table file, has
\* exactly the fields of the schema, which are 24: the timestamp, eight
\* weather fields, four calendar fields, seven pollutant fields and four lag
\* fields; an unresolved field is there as null and no other field is added.
C8_SchemaOf24 ==
  /\ \A p \in procs :
       pc[p] = "write" =>
         \A i \in DOMAIN loc[p].all_rows :
           /\ DOMAIN loc[p].all_rows[i] = Schema
           /\ Cardinality(DOMAIN loc[p].all_rows[i]) = 24
  /\ \A i \in DOMAIN file.rows : DOMAIN file.rows[i] = Schema
  /\ Schema = {"timestamp", "shortwave_radiation_sum"} \cup HourlyVars \cup CalendarFields
                \cup Pollutants \cup LagFields

\* A row about to be written with an unresolved pollutant and a resolved one.
C8_Witness ==
  \E p \in procs :
    /\ pc[p] = "write"
    /\ IsNull(CellAt(loc[p].all_rows[1], "o3"))
    /\ ~IsNull(CellAt(loc[p].all_rows[1], "pm25"))

\* ------------------------------------------------------------------------ C9
\* The parsable reading nearest to a lag target, the first of them in input
\* order when several are equally near; 0 when no reading parses.
Nearest(mediciones, target_time) ==
  LET parsable == {i \in DOMAIN mediciones : mediciones[i].parses}
      diff(i) == Abs(mediciones[i].t - target_time)
  IN  IF parsable = {} THEN 0
      ELSE CHOOSE i \in parsable :
             \A j \in parsable : diff(i) < diff(j) \/ (diff(i) = diff(j) /\ i <= j)

\* C9: for any sequence of readings in any order, the lag value is the value
\* of the parsable reading nearest to the lag target, the first in input order
\* among equally near ones, if it is at most 30 minutes away (exactly 30
\* minutes is accepted); it is null otherwise and when there are no readings.
C9_NearestWithTolerance ==
  lagOut # <<>> =>
    LET mediciones == lagIn.stream
        target_time == lagIn.target - lag_hours[1] * HOUR
        i == Nearest(mediciones, target_time)
    IN  IF i # 0 /\ Abs(mediciones[i].t - target_time) <= HALF_WINDOW
        THEN lagOut.selected = i /\ lagOut.nearest = mediciones[i].value
        ELSE lagOut.nearest = None

\* Two parsable readings with different values, exactly 30 minutes before and
\* after the lag target: the first one's value is returned.
C9_Witness ==
  /\ lagOut # <<>>
  /\ Len(lagIn.stream) = 2
  /\ lagIn.stream[1].parses /\ lagIn.stream[2].parses
  /\ lagIn.stream[1].t = lagIn.target - lag_hours[1] * HOUR + HALF_WINDOW
  /\ lagIn.stream[2].t = lagIn.target - lag_hours[1] * HOUR - HALF_WINDOW
  /\ lagIn.stream[1].value # lagIn.stream[2].value
  /\ lagOut.nearest = lagIn.stream[1].value

\* ----------------------------------------------------------------------- C10
\* C10: given the same target and the same measurement stream, the CDMX
\* variant and the LA variant store the same four lag values.
C10_SameLags == lagOut # <<>> => lagOut.cdmx = lagOut.la

\* ----------------------------------------------------------------------- C12
\* C12: in every emitted row the calendar fields are those of the timestamp
\* stored in the row: hour_of_day its hour, day_of_week its weekday (Monday =
\* 0), month_of_year its month, is_weekend true exactly on days 5 and 6.
C12_CalendarOfTimestamp ==
  \A p \in procs :
    pc[p] = "write" =>
      LET row == loc[p].all_rows[1]
          timestamp == CellAt(row, "timestamp").v
      IN  /\ CellAt(row, "hour_of_day") = IntCell(HourOf(timestamp))
          /\ CellAt(row, "day_of_week") = IntCell(weekday(timestamp))
          /\ CellAt(row, "month_of_year") = IntCell(month(timestamp))
          /\ CellAt(row, "is_weekend") = BoolCell(weekday(timestamp) \in {5, 6})

\* ----------------------------------------------------------------------- C14
\* C14: a run that captures the hour an earlier run captured, against the
\* readable table that run left, adds its row all the same: the table has one
\* row more and its last two rows have the same timestamp.
C14_SameHourTwice ==
  \A p \in procs :
    ( /\ pc[p] = "done" /\ obs[p].wrote = 1 /\ obs[p].at = version
      /\ ticks = 0 /\ ~obs[p].unreadable /\ obs[p].base_len >= 1 )
    => /\ Len(file.rows) = obs[p].base_len + 1
       /\ CellAt(file.rows[obs[p].base_len + 1], "timestamp")
            = CellAt(file.rows[obs[p].base_len], "timestamp")

\* Two runs in the same hour have written: the table has two rows of one
\* timestamp.
C14_Witness ==
  /\ version = 2 /\ ticks = 0 /\ file.readable
  /\ Len(file.rows) = 2
  /\ CellAt(file.rows[1], "timestamp") = CellAt(file.rows[2], "timestamp")
  /\ \E p \in procs : pc[p] = "done" /\ obs[p].base_len = 1 /\ obs[p].wrote = 1

\* ----------------------------------------------------------------------- C18
\* C18: the weather record copied into an emitted row is the record of the
\* hourly series whose hour of day is the hour of the timestamp stored in the
\* row; and a run whose series has no record of the hour emits no row.
C18_WeatherOfTimestampHour ==
  \A p \in procs :
    /\ pc[p] = "write" =>
         LET row == loc[p].all_rows[1]
         IN  \A f \in HourlyVars :
               CellAt(row, f) = FloatCell(HourOf(CellAt(row, "timestamp").v))
    /\ obs[p].no_match => (loc[p].all_rows = <<>> /\ obs[p].wrote = 0)

\* ----------------------------------------------------------------------- C17
\* The order of the steps as the specification gives it.
StepsInSpec ==
  << "RESOLVE_LOCATION", "FETCH_WEATHER", "FETCH_SENSORS", "FETCH_CURRENT_READINGS",
     "RESOLVE_LAGS", "BUILD_ROW", "PERSIST", "DONE" >>

\* The order of the steps in capturar_hora_actual_cdmx, whose location is
\* fixed, and in capturar_hora_actual_la with a location found and with none.
StepsCdmx ==
  << "FETCH_SENSORS", "FETCH_WEATHER", "FETCH_CURRENT_READINGS", "RESOLVE_LAGS",
     "BUILD_ROW", "PERSIST" >>

StepsLa ==
  << "FETCH_WEATHER", "RESOLVE_LOCATION", "FETCH_CURRENT_READINGS", "FETCH_SENSORS",
     "RESOLVE_LAGS", "BUILD_ROW", "PERSIST" >>

StepsLaNoLocation ==
  << "FETCH_WEATHER", "RESOLVE_LOCATION", "RESOLVE_LAGS", "BUILD_ROW", "PERSIST" >>

IsPrefix(s, t) == Len(s) <= Len(t) /\ \A i \in DOMAIN s : s[i] = t[i]

PositionIn(order, name) == CHOOSE i \in DOMAIN order : order[i] = name

\* The steps taken before the return.
BeforeDone(steps) == SelectSeq(steps, LAMBDA name : name # "DONE")

ExactWindow(readings, target) ==
  LET inside == SelectSeq(readings, LAMBDA r : target <= r.t /\ r.t < target + HOUR)
  IN  IF inside = <<>> THEN None ELSE inside[1].value

\* Two cells with the same value, null being one value.
SameValue(a, b) == a = b \/ (IsNull(a) /\ IsNull(b))

\* The measurements of a latest list that are of the sensors of a pollutant.
LatestOf(param) ==
  SelectSeq(curIn.latest,
            LAMBDA m : \E j \in DOMAIN curIn.sensors :
                         /\ curIn.sensors[j].id = m.sensorsId
                         /\ curIn.sensors[j].name \in DOMAIN PARAMETER_MAPPING
                         /\ PARAMETER_MAPPING[curIn.sensors[j].name] = param)

\* C11: in both variants the value written for a pollutant is that of the
\* first reading the source returns whose time lies in [target, target + 1 h),
\* and null when no reading lies there, whatever lies outside.
C11_FirstReadingOfTheHour ==
  curOut # <<>> =>
    /\ \A i \in DOMAIN curOut.sensor_mapping :
         LET sensor == curOut.sensor_mapping[i]
         IN  sensor.name \in DOMAIN PARAMETER_MAPPING =>
               SameValue(curOut.cdmx[PARAMETER_MAPPING[sensor.name]],
                         ExactWindow(curIn.streams[sensor.id], curIn.target))
    /\ \A param \in Pollutants :
         SameValue(curOut.la[param], ExactWindow(LatestOf(param), curIn.target))

\* ----------------------------------------------------------------------- C13
\* The id of the first descriptor that passes a test of its name, 0 if none.
FirstId(sensors, names) ==
  IF \E i \in DOMAIN sensors : sensors[i].name \in names
  THEN sensors[CHOOSE i \in DOMAIN sensors :
                 /\ sensors[i].name \in names
                 /\ \A j \in 1..(i - 1) : sensors[j].name \notin names].id
  ELSE 0

NamesOf(param) == {n \in DOMAIN PARAMETER_MAPPING : PARAMETER_MAPPING[n] = param}

\* C13: with descriptors that repeat a pollutant name the first one wins: the
\* sensor used for a pollutant's current reading and the sensor used for the
\* pm25 lag requests are the first descriptor of that name, and the value
\* written for a pollutant is the one of that first descriptor's sensor.
C13_FirstMatchWins ==
  curOut # <<>> =>
    /\ \A i \in DOMAIN curOut.sensor_mapping :
         curOut.sensor_mapping[i].id
           = FirstId(curIn.sensors, {curOut.sensor_mapping[i].name})
    /\ curOut.cdmx_pm25 = FirstId(curIn.sensors, {n \in SensorNames : HasPm25(n)})
    /\ curOut.la_pm25 = FirstId(curIn.sensors, {n \in SensorNames : HasPm25(n)})
    /\ \A param \in Pollutants :
         LET first == FirstId(curIn.sensors, NamesOf(param))
             of_first == SelectSeq(curIn.latest, LAMBDA m : m.sensorsId = first)
         IN  first # 0 =>
               /\ SameValue(curOut.cdmx[param],
                            FirstValue(Window(curIn.streams[first], curIn.target,
                                              curIn.target + HOUR)))
               /\ of_first # <<>> =>
                    \E k \in DOMAIN of_first : curOut.la[param] = of_first[k].value

\* ----------------------------------------------------------------------- C15
\* C15: under the polling loop, the hour a run captures is the hour whose
\* detection made the loop call it, no run captures an hour a run of the loop
\* has captured before, and no run is under way while the loop polls or
\* sleeps.
C15_OneRunPerHour ==
  loop.on =>
    \A p \in procs :
      /\ (loop.pc = "run" /\ obs[p].clock # -1) =>
           /\ HourOf(obs[p].clock) = loop.hora_actual
           /\ obs[p].clock \notin loop.captured
      /\ loop.pc \in {"poll", "sleep"} => pc[p] \in {"idle", "done"}

\* ----------------------------------------------------------------------- C16
\* C16: under the polling loop of either variant, the loop has stopped only if
\* a KeyboardInterrupt stopped it: no failure met by a run ends it.
C16_OnlyInterruptStops ==
  (loop.on /\ loop.pc = "stopped") => loop.interrupted

====
